---- MODULE Spec2Model ----
(***************************************************************************)
(* Model of run_evaluation.py: the response parser, the four evaluator     *)
(* functions and the batch loop of main().                                 *)
(*                                                                         *)
(* Python values that may be None are tagged records [t, v]; a Python str  *)
(* is a sequence of pieces, one character each wherever the code looks at  *)
(* characters (file names, question texts); a model reply is a sequence of *)
(* lexemes (braces, colon, comma, string and number literals, white space, *)
(* prose words).                                                           *)
(***************************************************************************)
EXTENDS Integers, Sequences, FiniteSets, TLC

VARIABLES
    pc,                 \* position of main(): load, loop, eval, record, sleep, done, and its
                        \* ends fatal (message) and, by an uncaught exception, load_raised,
                        \* loop_raised (before evaluation), aborted (line 361), write_raised
    questions_data,     \* the loaded dataset (line 273)
    idx,                \* 1-based position of the for loop of line 283
    all_results,        \* the result collection (line 281)
    result_entry,       \* the entry under construction (line 294)
    answer_image_files, \* sorted answer image paths of the last record that reached line 314,
                        \* Unbound until then
    scores,             \* first component of the evaluator's return value
    err,                \* second component of the evaluator's return value
    trace,              \* log of evaluator invocations, external calls, appends and delays
    output,             \* what the output file holds (line 379)
    response_content,   \* argument of parse_gpt_response when it is run on its own
    parsed              \* its outcome

vars == <<pc, questions_data, idx, all_results, result_entry, answer_image_files,
          scores, err, trace, output, response_content, parsed>>

(***************************************************************************)
(* Bounds                                                                  *)
(***************************************************************************)
\* longest dataset
MaxRecords == 2
\* longest enumerated raw response, in lexemes
MaxLen == 6

(***************************************************************************)
(* Python values                                                           *)
(***************************************************************************)
None == [t |-> "None", v |-> 0]
Str(s) == [t |-> "str", v |-> s]
Num(n) == [t |-> "int", v |-> n]
Dict(f) == [t |-> "dict", v |-> f]
EmptyDict == [k \in {} |-> None]

\* Python truth value of None, a str, an int or a dict
Truthy(x) ==
    CASE x.t = "None" -> FALSE
      [] x.t = "str"  -> x.v # <<>>
      [] x.t = "int"  -> x.v # 0
      [] x.t = "dict" -> DOMAIN x.v # {}
      [] OTHER        -> TRUE

(***************************************************************************)
(* Character strings: str.lower, str.endswith, ordering                    *)
(***************************************************************************)
UpperCase == <<"A","B","C","D","E","F","G","H","I","J","K","L","M",
               "N","O","P","Q","R","S","T","U","V","W","X","Y","Z">>
LowerCase == <<"a","b","c","d","e","f","g","h","i","j","k","l","m",
               "n","o","p","q","r","s","t","u","v","w","x","y","z">>
\* the characters in code-point order
CodePoints == <<" ", ".", "/", "0","1","2","3","4","5","6","7","8","9", "?">>
              \o UpperCase \o LowerCase

LowerChar(c) ==
    IF \E i \in 1..26 : UpperCase[i] = c
    THEN LowerCase[CHOOSE i \in 1..26 : UpperCase[i] = c]
    ELSE c

Lower(s) == [i \in 1..Len(s) |-> LowerChar(s[i])]

EndsWith(s, suffix) ==
    /\ Len(suffix) <= Len(s)
    /\ SubSeq(s, Len(s) - Len(suffix) + 1, Len(s)) = suffix

EndsWithAny(s, suffixes) == \E i \in 1..Len(suffixes) : EndsWith(s, suffixes[i])

Ord(c) == CHOOSE i \in 1..Len(CodePoints) : CodePoints[i] = c

RECURSIVE StrLess(_, _)
StrLess(a, b) ==
    IF b = <<>> THEN FALSE
    ELSE IF a = <<>> THEN TRUE
    ELSE IF Head(a) = Head(b) THEN StrLess(Tail(a), Tail(b))
    ELSE Ord(Head(a)) < Ord(Head(b))

RECURSIVE Sorted(_)
Sorted(set) ==
    IF set = {} THEN <<>>
    ELSE LET m == CHOOSE x \in set : \A y \in set \ {x} : StrLess(x, y)
         IN <<m>> \o Sorted(set \ {m})

(***************************************************************************)
(* Lexemes of a model reply                                                *)
(***************************************************************************)
StrLits == {"\"1\"", "\"2\"", "\"3\"", "\"4\"", "\"5\"", "\"hi\""}
NumLits == {"0", "1", "2", "3", "4", "5"}

StrVal(tok) ==
    CASE tok = "\"1\"" -> "1" [] tok = "\"2\"" -> "2" [] tok = "\"3\"" -> "3"
      [] tok = "\"4\"" -> "4" [] tok = "\"5\"" -> "5" [] OTHER -> "hi"

NumVal(tok) ==
    CASE tok = "0" -> 0 [] tok = "1" -> 1 [] tok = "2" -> 2
      [] tok = "3" -> 3 [] tok = "4" -> 4 [] OTHER -> 5

\* str.find and str.rfind, 0-based, -1 when absent
Find(s, c) ==
    IF \E i \in 1..Len(s) : s[i] = c
    THEN (CHOOSE i \in 1..Len(s) : s[i] = c /\ \A j \in 1..(i-1) : s[j] # c) - 1
    ELSE -1

RFind(s, c) ==
    IF \E i \in 1..Len(s) : s[i] = c
    THEN (CHOOSE i \in 1..Len(s) : s[i] = c /\ \A j \in (i+1)..Len(s) : s[j] # c) - 1
    ELSE -1

\* s[a:b] for 0 <= a <= b
Slice(s, a, b) == SubSeq(s, a + 1, IF b < Len(s) THEN b ELSE Len(s))

\* str.strip
RECURSIVE LStrip(_)
LStrip(s) == IF s # <<>> /\ Head(s) = " " THEN LStrip(Tail(s)) ELSE s
RECURSIVE RStrip(_)
RStrip(s) ==
    IF s # <<>> /\ s[Len(s)] = " " THEN RStrip(SubSeq(s, 1, Len(s) - 1)) ELSE s
Strip(s) == RStrip(LStrip(s))

(***************************************************************************)
(* json.loads on a lexeme sequence                                         *)
(***************************************************************************)
JSONDecodeError == [ok |-> FALSE, val |-> None, pos |-> 0]

\* the position of the first lexeme from i on that is not white space
RECURSIVE SkipWs(_, _)
SkipWs(s, i) == IF i <= Len(s) /\ s[i] = " " THEN SkipWs(s, i + 1) ELSE i

\* the last lexeme of the run of digits that starts at lexeme i
RECURSIVE DigitsEnd(_, _)
DigitsEnd(s, i) == IF i + 1 <= Len(s) /\ s[i + 1] \in NumLits THEN DigitsEnd(s, i + 1) ELSE i

\* the decimal number written by the digits s[i..j]
RECURSIVE DigitsVal(_, _, _)
DigitsVal(s, i, j) == IF j < i THEN 0 ELSE 10 * DigitsVal(s, i, j - 1) + NumVal(s[j])

RECURSIVE ParseValue(_, _)
RECURSIVE ParseMembers(_, _, _)

\* the JSON value that starts at lexeme i, and the position after it; adjacent
\* digits are one number, and a number that starts with 0 is the digit 0 alone
ParseValue(s, i) ==
    IF i > Len(s) THEN JSONDecodeError
    ELSE IF s[i] \in NumLits
    THEN LET j == IF s[i] = "0" THEN i ELSE DigitsEnd(s, i)
         IN [ok |-> TRUE, val |-> Num(DigitsVal(s, i, j)), pos |-> j + 1]
    ELSE IF s[i] \in StrLits
    THEN [ok |-> TRUE, val |-> Str(<<StrVal(s[i])>>), pos |-> i + 1]
    ELSE IF s[i] = "{"
    THEN LET j == SkipWs(s, i + 1)
         IN IF j <= Len(s) /\ s[j] = "}"
            THEN [ok |-> TRUE, val |-> Dict(EmptyDict), pos |-> j + 1]
            ELSE ParseMembers(s, j, EmptyDict)
    ELSE JSONDecodeError

\* the members of an object whose next key is at lexeme i; a repeated key keeps
\* its last value
ParseMembers(s, i, acc) ==
    IF i <= Len(s) /\ s[i] \in StrLits
    THEN LET c == SkipWs(s, i + 1)
         IN IF c <= Len(s) /\ s[c] = ":"
            THEN LET r == ParseValue(s, SkipWs(s, c + 1))
                     key == StrVal(s[i])
                     acc2 == [k \in DOMAIN acc \cup {key} |->
                                 IF k = key THEN r.val ELSE acc[k]]
                     e == SkipWs(s, r.pos)
                 IN IF ~r.ok \/ e > Len(s) THEN JSONDecodeError
                    ELSE IF s[e] = "}"
                    THEN [ok |-> TRUE, val |-> Dict(acc2), pos |-> e + 1]
                    ELSE IF s[e] = ","
                    THEN ParseMembers(s, SkipWs(s, e + 1), acc2)
                    ELSE JSONDecodeError
            ELSE JSONDecodeError
    ELSE JSONDecodeError

\* white space may surround the one value the text holds
JsonLoads(json_str) ==
    LET r == ParseValue(json_str, SkipWs(json_str, 1))
    IN IF r.ok /\ SkipWs(json_str, r.pos) = Len(json_str) + 1
       THEN [ok |-> TRUE, val |-> r.val, pos |-> Len(json_str) + 1]
       ELSE JSONDecodeError

(***************************************************************************)
(* parse_gpt_response                                                      *)
(***************************************************************************)
\* one lone surrogate code point (U+D800): json.load and json.loads accept it in a
\* string, and no UTF-8 stream (standard output, the output file) can encode it
Surrogate == "\\ud800"

\* print(text) raises UnicodeEncodeError
Unprintable(text) == \E i \in DOMAIN text : text[i] = Surrogate

\* lines 82-89: the body of the try block; exc names the exception it ends with
ParseBody(response_content_arg) ==
    LET start_index == Find(response_content_arg, "{")
        end_index == RFind(response_content_arg, "}") + 1
    IN IF start_index # -1 /\ end_index # -1 /\ end_index > start_index
       THEN LET json_str == Slice(response_content_arg, start_index, end_index)
                r == JsonLoads(json_str)
            IN IF r.ok THEN [exc |-> "", val |-> r.val]
               ELSE [exc |-> "JSONDecodeError", val |-> None]
       ELSE IF Unprintable(response_content_arg)
       THEN [exc |-> "UnicodeEncodeError", val |-> None]    \* print, line 88
       ELSE [exc |-> "", val |-> None]

\* outcome [raised, val]: the function returns val, or lets an exception escape.
\* The handler of line 90 prints the response (line 91), and what that print
\* raises no handler catches; the print of line 88 is inside the try.
parse_gpt_response(response_content_arg) ==
    LET b == ParseBody(response_content_arg)
    IN IF b.exc = "" THEN [raised |-> FALSE, val |-> b.val]
       ELSE IF b.exc = "JSONDecodeError"
       THEN [raised |-> Unprintable(response_content_arg), val |-> None]
       ELSE [raised |-> FALSE, val |-> None]    \* except Exception, lines 93-95

(***************************************************************************)
(* The files the run sees                                                  *)
(***************************************************************************)
SCRIPT_DIR == <<"/", "a", "p", "p">>
ANSWERS_BASE_DIR == <<"/", "a", "p", "p", "/", "a", "n", "s", "w", "e", "r", "s">>

\* str.rfind of a character in a path, 0-based, -1 when absent
RFindChar(p, c) ==
    IF \E i \in 1..Len(p) : p[i] = c
    THEN (CHOOSE i \in 1..Len(p) : p[i] = c /\ \A j \in (i + 1)..Len(p) : p[j] # c) - 1
    ELSE -1

\* os.path.join(dir, name): an absolute name replaces dir; the separator is added
\* unless dir is empty or ends in one
PathJoin(dir, name) ==
    IF name # <<>> /\ Head(name) = "/" THEN name
    ELSE IF dir = <<>> \/ dir[Len(dir)] = "/" THEN dir \o name
    ELSE dir \o <<"/">> \o name

Q1 == <<"q", "1">>
Q2 == <<"q", "2">>
Q3 == <<"q", "3">>
Q4 == <<"q", "4">>

DotDot == <<".", ".">>

FigPng == <<"f", "i", "g", ".", "p", "n", "g">>
NoPng == <<"n", "o", ".", "p", "n", "g">>
FJpg == <<"F", ".", "J", "P", "G">>
MGif == <<"m", ".", "g", "i", "f">>
What == <<"7", "x", "8", "?">>

DotFigPng == <<".", "/">> \o FigPng

BadPng == <<Surrogate, ".", "p", "n", "g">>

\* the answer folders on disk: q3 has none
Directories == {PathJoin(ANSWERS_BASE_DIR, Q1), PathJoin(ANSWERS_BASE_DIR, Q2),
                PathJoin(ANSWERS_BASE_DIR, Q4)}

\* the files in the answer folders: q1 holds one image, q2 two images and a text
\* file, q4 no image
AnswerFiles ==
    {PathJoin(PathJoin(ANSWERS_BASE_DIR, Q1), <<"a", ".", "p", "n", "g">>),
     PathJoin(PathJoin(ANSWERS_BASE_DIR, Q2), <<"b", ".", "P", "N", "G">>),
     PathJoin(PathJoin(ANSWERS_BASE_DIR, Q2), <<"a", ".", "j", "p", "g">>),
     PathJoin(PathJoin(ANSWERS_BASE_DIR, Q2), <<"n", ".", "t", "x", "t">>),
     PathJoin(PathJoin(ANSWERS_BASE_DIR, Q4), <<"n", ".", "t", "x", "t">>)}

\* the files next to the script, the script among them: no.png is not on disk
RegularFiles ==
    {PathJoin(SCRIPT_DIR, FigPng), PathJoin(SCRIPT_DIR, FJpg), PathJoin(SCRIPT_DIR, MGif),
     PathJoin(SCRIPT_DIR, <<"r", "u", "n", "_", "e", "v", "a", "l", "u", "a", "t", "i", "o", "n",
                            ".", "p", "y">>)}

\* every directory and every file of the disk, by its real path
Root == <<"/">>
Folders == {Root, SCRIPT_DIR, ANSWERS_BASE_DIR} \cup Directories
Files == RegularFiles \cup AnswerFiles

\* the directory that holds d
Parent(d) ==
    LET k == RFindChar(d, "/")
    IN IF k <= 0 THEN Root ELSE SubSeq(d, 1, k)

\* the last name of a real path
BaseName(p) == SubSeq(p, RFindChar(p, "/") + 2, Len(p))

\* os.listdir of a directory given by its real path: the names of the files and
\* directories it holds
ListDir(folder) ==
    {BaseName(e) : e \in {x \in (Files \cup Folders) \ {Root} : Parent(x) = folder}}

\* the names between the separators of a path
RECURSIVE Components(_)
Components(p) ==
    LET k == RFindChar(p, "/")
    IN IF k = -1 THEN <<p>>
       ELSE Components(SubSeq(p, 1, k)) \o <<SubSeq(p, k + 2, Len(p))>>

\* what a path that cannot be followed resolves to
NoEntry == <<>>

\* the file system follows a path name by name from cur: "" and "." stay, ".."
\* goes up, and every name but the last must be found in a directory
RECURSIVE Walk(_, _)
Walk(cur, names) ==
    IF names = <<>> THEN cur
    ELSE IF cur \notin Folders THEN NoEntry
    ELSE LET name == Head(names)
         IN IF name = <<>> \/ name = <<".">> THEN Walk(cur, Tail(names))
            ELSE IF name = <<".", ".">> THEN Walk(Parent(cur), Tail(names))
            ELSE Walk(PathJoin(cur, name), Tail(names))

\* the real path the file system finds for a path (a relative one starts in the
\* working directory, taken to be SCRIPT_DIR)
Resolve(p) ==
    IF p = <<>> THEN NoEntry
    ELSE Walk(IF Head(p) = "/" THEN Root ELSE SCRIPT_DIR, Components(p))

\* os.path.isdir, os.path.isfile
IsDir(p) == Resolve(p) \in Folders
IsFile(p) == Resolve(p) \in Files

(***************************************************************************)
(* The dataset                                                             *)
(***************************************************************************)
\* a key the JSON object does not have
Missing == [t |-> "missing", v |-> 0]

\* dict.get(key, default)
Get(item, key, default) == IF item[key].t = "missing" THEN default ELSE item[key]

Rec(id, question, subject) == [id |-> id, question |-> question, subject |-> subject]

SampleRecords ==
    { Rec(Str(Q1), Str(What), Str(<<"math">>)),
      Rec(Str(Q2), Str(NoPng), Missing),
      Rec(Str(Q1), Str(DotFigPng), Missing),
      Rec(Str(Q2), Str(FJpg), Missing),
      Rec(Str(DotDot), Str(MGif), Missing),
      Rec(Str(Q3), Str(What), Missing),
      Rec(Str(Q4), Str(FigPng), Str(<<Surrogate>>)),
      Rec(Str(Q2), Str(BadPng), Missing),
      Rec(Str(<<Surrogate>>), Str(What), Missing),
      Rec(None, Str(What), Missing),
      Rec(Str(Q1), Str(<<>>), Missing) }

Datasets == UNION {[1..n -> SampleRecords] : n \in 0..MaxRecords}

(***************************************************************************)
(* The external model call                                                 *)
(***************************************************************************)
SampleReplies ==
    { <<"Here", " ", "{", "\"1\"", ":", "3", ",", "\"2\"", ":", "4", ",", "\"3\"", ":", "2", ",",
        "\"4\"", ":", "5", ",", "\"5\"", ":", "1", "}", " ", "thanks", " ">>,
      <<"{", "\"1\"", ":", "{", "\"2\"", ":", "1", "}", "}">>,
      <<"{", "\"1\"", ":", "\"hi\"", "}">>,
      <<"{", "}">>,
      <<"}", "x", "{">>,
      <<"{", "\"1\"", ":", "0", "}">>,
      <<>> }

\* the replies the model is seen to give in a run
ApiReplies ==
    { <<"Here", " ", "{", "\"1\"", ":", "3", ",", "\"2\"", ":", "4", ",", "\"3\"", ":", "2", ",",
        "\"4\"", ":", "5", ",", "\"5\"", ":", "1", "}", " ", "thanks", " ">>,
      <<"{", "\"1\"", ":", "\"hi\"", "}">>,
      <<"{", "}">>,
      <<"{", Surrogate, "}">>,
      <<>> }

\* what client.chat.completions.create and the reading of its reply end with:
\* a reply text, an OpenAIError, or another exception (a reply without content)
ApiOutcomes ==
    {[kind |-> "reply", content |-> r] : r \in ApiReplies}
    \cup {[kind |-> "OpenAIError", content |-> <<>>],
          [kind |-> "Exception", content |-> <<>>]}

(***************************************************************************)
(* encode_image_to_data_url                                                *)
(***************************************************************************)
\* os.path.splitext(p)[1]: from the last dot of the file name on, unless that dot
\* is missing or only dots come before it in the file name
SplitExt(p) ==
    LET sepIndex == RFindChar(p, "/")
        dotIndex == RFindChar(p, ".")
    IN IF dotIndex > sepIndex
          /\ \E k \in (sepIndex + 1)..(dotIndex - 1) : p[k + 1] # "."
       THEN SubSeq(p, dotIndex + 1, Len(p))
       ELSE <<>>

\* unreadable: the files whose open() or read() fails
encode_image_to_data_url(image_path, unreadable) ==
    IF image_path \in unreadable THEN None
    ELSE LET ext == Lower(SplitExt(image_path))
             mime_type == IF ext \in {<<".", "j", "p", "g">>, <<".", "j", "p", "e", "g">>}
                          THEN "image/jpeg" ELSE "image/png"
         IN Str(<<"data:", mime_type, ";base64,">> \o image_path)

(***************************************************************************)
(* The four evaluators: outcome [scores, err, called]                      *)
(***************************************************************************)
Returns(s, e, c) == [scores |-> s, err |-> e, called |-> c]

\* the try block that ends each evaluator: the request, then the parse
ChatAndParse(api) ==
    IF api.kind = "OpenAIError"
    THEN Returns(None, Str(<<"OpenAI API error: ", "e">>), TRUE)
    ELSE IF api.kind = "Exception"
    THEN Returns(None, Str(<<"Unexpected error during API call: ", "e">>), TRUE)
    ELSE LET content == Strip(api.content)
             p == parse_gpt_response(content)
         IN IF p.raised
            THEN Returns(None, Str(<<"Unexpected error during API call: ", "e">>), TRUE)
            ELSE Returns(p.val,
                         IF Truthy(p.val) THEN None
                         ELSE Str(<<"Failed to parse scores from GPT response.">>),
                         TRUE)

\* the first path of the sequence that fails to encode, 0 if none
FirstUnencoded(paths, unreadable) ==
    IF \E i \in 1..Len(paths) : ~Truthy(encode_image_to_data_url(paths[i], unreadable))
    THEN CHOOSE i \in 1..Len(paths) :
            /\ ~Truthy(encode_image_to_data_url(paths[i], unreadable))
            /\ \A j \in 1..(i - 1) : Truthy(encode_image_to_data_url(paths[j], unreadable))
    ELSE 0

\* the check of line 103 that looks at the question image only
evaluate_image_q_single_a_QuestionOnly(question_image_path, answer_image_path, unreadable, api) ==
    LET q_url == encode_image_to_data_url(question_image_path, unreadable)
    IN IF ~Truthy(q_url)
       THEN Returns(None, Str(<<"Failed to encode one or both images.">>), FALSE)
       ELSE ChatAndParse(api)

evaluate_image_q_single_a(question_image_path, answer_image_path, unreadable, api) ==
    LET q_url == encode_image_to_data_url(question_image_path, unreadable)
        a_url == encode_image_to_data_url(answer_image_path, unreadable)
    IN IF ~Truthy(q_url) \/ ~Truthy(a_url)
       THEN Returns(None, Str(<<"Failed to encode one or both images.">>), FALSE)
       ELSE ChatAndParse(api)

evaluate_image_q_multiple_a(question_image_path, answer_image_paths, unreadable, api) ==
    LET q_url == encode_image_to_data_url(question_image_path, unreadable)
        bad == FirstUnencoded(answer_image_paths, unreadable)
    IN IF ~Truthy(q_url)
       THEN Returns(None, Str(<<"Failed to encode question image.">>), FALSE)
       ELSE IF bad # 0
       THEN Returns(None, Str(<<"Failed to encode an answer image: ">> \o answer_image_paths[bad]),
                    FALSE)
       ELSE ChatAndParse(api)

evaluate_text_q_single_a(question_text, answer_image_path, unreadable, api) ==
    LET a_url == encode_image_to_data_url(answer_image_path, unreadable)
    IN IF ~Truthy(a_url)
       THEN Returns(None, Str(<<"Failed to encode answer image.">>), FALSE)
       ELSE ChatAndParse(api)

evaluate_text_q_multiple_a(question_text, answer_image_paths, unreadable, api) ==
    LET bad == FirstUnencoded(answer_image_paths, unreadable)
    IN IF bad # 0
       THEN Returns(None, Str(<<"Failed to encode an answer image: ">> \o answer_image_paths[bad]),
                    FALSE)
       ELSE ChatAndParse(api)

(***************************************************************************)
(* main(): helpers                                                         *)
(***************************************************************************)
AnswerExts == << <<".", "p", "n", "g">>, <<".", "j", "p", "g">>, <<".", "j", "p", "e", "g">>,
                 <<".", "g", "i", "f">>, <<".", "b", "m", "p">> >>
QuestionExts == << <<".", "p", "n", "g">>, <<".", "j", "p", "g">>, <<".", "j", "p", "e", "g">> >>

\* a value that holds a lone surrogate in one of its strings
RECURSIVE HasSurrogate(_)
HasSurrogate(x) ==
    CASE x.t = "str" -> Unprintable(x.v)
      [] x.t = "dict" -> \E k \in DOMAIN x.v : k = Surrogate \/ HasSurrogate(x.v[k])
      [] OTHER -> FALSE

\* json.dump(..., ensure_ascii=False) to a UTF-8 file cannot encode the entry
Unencodable(entry) ==
    \/ \E key \in {"question_id", "subject", "question_raw", "question_type",
                    "question_path_or_text", "category_scores", "error_message"} :
          HasSurrogate(entry[key])
    \/ \E i \in DOMAIN entry.answer_image_paths : HasSurrogate(Str(entry.answer_image_paths[i]))

\* the decimal digits of n >= 0
RECURSIVE DigitsOf(_)
DigitsOf(n) ==
    LET d == <<"0", "1", "2", "3", "4", "5", "6", "7", "8", "9">>[(n % 10) + 1]
    IN IF n < 10 THEN <<d>> ELSE DigitsOf(n \div 10) \o <<d>>

\* str(x) of line 307, for a str, an int or None
PyStr(x) ==
    IF x.t = "str" THEN x.v
    ELSE IF x.t = "int" THEN (IF x.v < 0 THEN <<"-">> \o DigitsOf(-x.v) ELSE DigitsOf(x.v))
    ELSE <<"N", "o", "n", "e">>

\* line 288 with "and" in the place of "or"
ShouldSkipBoth(question_id, question_content) ==
    ~Truthy(question_id) /\ ~Truthy(question_content)

\* line 288
ShouldSkip(question_id, question_content) ==
    ~Truthy(question_id) \/ ~Truthy(question_content)

\* lines 294-305
NewEntry(question_id, subject, question_content) ==
    [question_id |-> question_id,
     subject |-> subject,
     question_raw |-> question_content,
     question_type |-> None,
     question_path_or_text |-> None,
     answer_image_paths |-> <<>>,
     num_answer_images |-> 0,
     category_scores |-> None,
     total_score |-> 0,
     error_message |-> None]

\* lines 314-318
ListAnswerImages(answer_folder_path) ==
    Sorted({PathJoin(answer_folder_path, f) :
               f \in {g \in ListDir(Resolve(answer_folder_path)) :
                         EndsWithAny(Lower(g), AnswerExts)}})

\* line 328
is_image_question(question_content) ==
    question_content.t = "str" /\ EndsWithAny(Lower(question_content.v), QuestionExts)

\* lines 349-354 with the two calls exchanged
SelectEvaluatorSwapped(entry, files) ==
    IF entry.question_type = Str(<<"Image">>)
    THEN IF Len(files) = 1 THEN "evaluate_image_q_single_a"
         ELSE "evaluate_image_q_multiple_a"
    ELSE IF Len(files) = 1 THEN "evaluate_text_q_multiple_a"
         ELSE "evaluate_text_q_single_a"

\* lines 330-354: the evaluator the branches pick
SelectEvaluator(entry, files) ==
    IF entry.question_type = Str(<<"Image">>)
    THEN IF Len(files) = 1 THEN "evaluate_image_q_single_a"
         ELSE "evaluate_image_q_multiple_a"
    ELSE IF Len(files) = 1 THEN "evaluate_text_q_single_a"
         ELSE "evaluate_text_q_multiple_a"

\* lines 342-354: the call of the picked evaluator
CallEvaluator(fn, entry, files, unreadable, api) ==
    CASE fn = "evaluate_image_q_single_a" ->
            evaluate_image_q_single_a(entry.question_path_or_text.v, files[1], unreadable, api)
      [] fn = "evaluate_image_q_multiple_a" ->
            evaluate_image_q_multiple_a(entry.question_path_or_text.v, files, unreadable, api)
      [] fn = "evaluate_text_q_single_a" ->
            evaluate_text_q_single_a(entry.question_path_or_text.v, files[1], unreadable, api)
      [] OTHER ->
            evaluate_text_q_multiple_a(entry.question_path_or_text.v, files, unreadable, api)

\* the image files an evaluation has to encode
RequiredImages(fn, entry, files) ==
    {files[i] : i \in 1..Len(files)}
    \cup (IF fn \in {"evaluate_image_q_single_a", "evaluate_image_q_multiple_a"}
          THEN {entry.question_path_or_text.v} ELSE {})

\* sum(scores.values()): TypeError unless every value is a number
RECURSIVE SumOver(_, _)
SumOver(f, keys) ==
    IF keys = {} THEN 0
    ELSE LET k == CHOOSE x \in keys : TRUE IN f[k].v + SumOver(f, keys \ {k})

PySum(d) ==
    IF \A k \in DOMAIN d : d[k].t = "int"
    THEN [raised |-> FALSE, val |-> SumOver(d, DOMAIN d)]
    ELSE [raised |-> TRUE, val |-> 0]

\* line 361 left out: the total stays 0
TotalScoreUnset(scores_arg) ==
    IF scores_arg.t = "dict"
    THEN [raised |-> PySum(scores_arg.v).raised, val |-> 0]
    ELSE [raised |-> FALSE, val |-> 0]

\* line 361
TotalScore(scores_arg) ==
    IF scores_arg.t = "dict" THEN PySum(scores_arg.v) ELSE [raised |-> FALSE, val |-> 0]

\* unencoded: some image the evaluation needs could not be encoded
Event(ev, rec, fn, unencoded) == [ev |-> ev, rec |-> rec, fn |-> fn, unencoded |-> unencoded]

\* the output path holds no document of results
NotWritten == [written |-> FALSE, data |-> <<>>]

(***************************************************************************)
(* main(): the steps                                                       *)
(***************************************************************************)
\* a local of main() that no statement has assigned yet
Unbound == [t |-> "unbound", v |-> 0]

\* lines 271-281: the dataset loads; or the file is missing or not JSON and the
\* run ends with a message; or open/read raises something else (a directory, an
\* unreadable or non-UTF-8 file), which nothing catches
LoadDataset ==
    /\ pc = "load"
    /\ \E outcome \in {"loaded", "message", "raised"} :
          IF outcome = "loaded"
          THEN pc' = "loop" /\ idx' = 1
          ELSE IF outcome = "message"
          THEN pc' = "fatal" /\ idx' = idx
          ELSE pc' = "load_raised" /\ idx' = idx
    /\ UNCHANGED <<questions_data, all_results, result_entry, answer_image_files,
                   scores, err, trace, output, response_content, parsed>>

\* lines 283-338 and the assignments of 347-348: the next record up to the evaluator call
NextRecord ==
    /\ pc = "loop"
    /\ idx <= Len(questions_data)
    /\ LET question_item == questions_data[idx]
           question_id == Get(question_item, "id", None)
           question_content == Get(question_item, "question", None)
           subject == Get(question_item, "subject", Str(<<"N/A">>))
           entry0 == NewEntry(question_id, subject, question_content)
           answer_folder_path == PathJoin(ANSWERS_BASE_DIR, PyStr(question_id))
           files == ListAnswerImages(answer_folder_path)
           entry1 == [entry0 EXCEPT !.answer_image_paths = files,
                                    !.num_answer_images = Len(files)]
           full_question_image_path == PathJoin(SCRIPT_DIR, question_content.v)
           entryI == [entry1 EXCEPT !.question_type = Str(<<"Image">>),
                                    !.question_path_or_text = Str(full_question_image_path)]
           entryT == [entry1 EXCEPT !.question_type = Str(<<"Text">>),
                                    !.question_path_or_text = question_content]
           \* a missing folder leaves line 314 unreached and the local as it was
           Fail(entry, message) ==
               /\ result_entry' = [entry EXCEPT !.error_message = Str(<<message>>)]
               /\ all_results' = Append(all_results, result_entry')
               /\ trace' = Append(trace, Event("append", idx, "", FALSE))
               /\ answer_image_files' = IF IsDir(answer_folder_path)
                                        THEN files ELSE answer_image_files
               /\ idx' = idx + 1
               /\ pc' = "loop"
           \* an exception no handler catches leaves main() inside the loop
           Raise(entry, listing) ==
               /\ result_entry' = entry
               /\ answer_image_files' = listing
               /\ pc' = "loop_raised"
               /\ UNCHANGED <<all_results, trace, idx>>
           Go(entry) ==
               /\ result_entry' = entry
               /\ answer_image_files' = files
               /\ pc' = "eval"
               /\ UNCHANGED <<all_results, trace, idx>>
       IN IF ShouldSkip(question_id, question_content)
          THEN /\ idx' = idx + 1
               /\ trace' = Append(trace, Event("skip", idx, "", FALSE))
               /\ UNCHANGED <<pc, all_results, result_entry, answer_image_files>>
          ELSE IF HasSurrogate(question_id)
          THEN Raise(result_entry, answer_image_files)    \* print, line 292
          ELSE IF ~IsDir(answer_folder_path)
          THEN Fail(entry0, "Answer folder not found.")
          ELSE \E listed \in BOOLEAN :
                  IF ~listed
                  THEN Raise(entry0, answer_image_files)  \* os.listdir, line 316
                  ELSE IF ~Truthy(Str(files))
                  THEN Fail(entry1, "No answer images found.")
                  ELSE IF is_image_question(question_content)
                  THEN IF ~IsFile(full_question_image_path)
                       THEN IF HasSurrogate(Str(full_question_image_path))
                            THEN Raise(entryI, files)     \* print, line 335
                            ELSE Fail(entryI, "Question image file not found.")
                       ELSE Go(entryI)
                  ELSE Go(entryT)
    /\ UNCHANGED <<questions_data, scores, err, output, response_content, parsed>>

\* lines 340-354 with the evaluator's body (98-258)
Evaluate ==
    /\ pc = "eval"
    /\ LET fn == SelectEvaluator(result_entry, answer_image_files)
           required == RequiredImages(fn, result_entry, answer_image_files)
       IN \E unreadable \in SUBSET required, api \in ApiOutcomes :
             LET r == CallEvaluator(fn, result_entry, answer_image_files, unreadable, api)
             IN /\ scores' = r.scores
                /\ err' = r.err
                /\ trace' = trace \o <<Event("eval", idx, fn, unreadable # {})>>
                                  \o (IF r.called THEN <<Event("call", idx, fn, unreadable # {})>>
                                      ELSE <<>>)
    /\ pc' = "record"
    /\ UNCHANGED <<questions_data, idx, all_results, result_entry, answer_image_files,
                   output, response_content, parsed>>

\* lines 356-364 with "if scores" in the place of "elif scores"
RecordOutcomeSeparateIfs ==
    /\ pc = "record"
    /\ LET withErr == IF Truthy(err) THEN [result_entry EXCEPT !.error_message = err]
                      ELSE result_entry
           total == TotalScore(scores)
       IN IF Truthy(scores)
          THEN IF total.raised
               THEN /\ result_entry' = [withErr EXCEPT !.category_scores = scores]
                    /\ pc' = "aborted"
                    /\ UNCHANGED <<all_results, trace>>
               ELSE /\ result_entry' = [withErr EXCEPT !.category_scores = scores,
                                                       !.total_score = total.val]
                    /\ all_results' = Append(all_results, result_entry')
                    /\ trace' = Append(trace, Event("append", idx, "", FALSE))
                    /\ pc' = "sleep"
          ELSE /\ result_entry' = [withErr EXCEPT !.error_message =
                                      Str(<<"Evaluation completed but no scores were returned.">>)]
               /\ all_results' = Append(all_results, result_entry')
               /\ trace' = Append(trace, Event("append", idx, "", FALSE))
               /\ pc' = "sleep"
    /\ UNCHANGED <<questions_data, idx, answer_image_files, scores, err, output,
                   response_content, parsed>>

\* lines 356-366: the outcome goes into the entry and the entry into the collection
RecordOutcome ==
    /\ pc = "record"
    /\ IF Truthy(err)
       THEN /\ result_entry' = [result_entry EXCEPT !.error_message = err]
            /\ all_results' = Append(all_results, result_entry')
            /\ trace' = Append(trace, Event("append", idx, "", FALSE))
            /\ pc' = "sleep"
       ELSE IF Truthy(scores)
       THEN LET total == TotalScore(scores)
            IN IF total.raised
               THEN /\ result_entry' = [result_entry EXCEPT !.category_scores = scores]
                    /\ pc' = "aborted"
                    /\ UNCHANGED <<all_results, trace>>
               ELSE /\ result_entry' = [result_entry EXCEPT !.category_scores = scores,
                                                            !.total_score = total.val]
                    /\ all_results' = Append(all_results, result_entry')
                    /\ trace' = Append(trace, Event("append", idx, "", FALSE))
                    /\ pc' = "sleep"
       ELSE /\ result_entry' = [result_entry EXCEPT !.error_message =
                                   Str(<<"Evaluation completed but no scores were returned.">>)]
            /\ all_results' = Append(all_results, result_entry')
            /\ trace' = Append(trace, Event("append", idx, "", FALSE))
            /\ pc' = "sleep"
    /\ UNCHANGED <<questions_data, idx, answer_image_files, scores, err, output,
                   response_content, parsed>>

\* the loop moves on without the delay of line 367
SleepSkipped ==
    /\ pc = "sleep"
    /\ idx' = idx + 1
    /\ pc' = "loop"
    /\ UNCHANGED <<questions_data, all_results, result_entry, answer_image_files,
                   scores, err, trace, output, response_content, parsed>>

\* line 367, and the loop moves on
Sleep ==
    /\ pc = "sleep"
    /\ trace' = Append(trace, Event("sleep", idx, "", FALSE))
    /\ idx' = idx + 1
    /\ pc' = "loop"
    /\ UNCHANGED <<questions_data, all_results, result_entry, answer_image_files,
                   scores, err, output, response_content, parsed>>

\* lines 372-382: the one write of the collection; an IOError of open or write is
\* reported only; the UnicodeEncodeError of json.dump on a lone surrogate is not an
\* IOError and leaves main() with a cut-off file behind
WriteOutput ==
    /\ pc = "loop"
    /\ idx > Len(questions_data)
    /\ \E saved \in BOOLEAN :
          IF ~saved
          THEN output' = NotWritten /\ pc' = "done"
          ELSE IF \E i \in DOMAIN all_results : Unencodable(all_results[i])
          THEN output' = NotWritten /\ pc' = "write_raised"
          ELSE output' = [written |-> TRUE, data |-> all_results] /\ pc' = "done"
    /\ UNCHANGED <<questions_data, idx, all_results, result_entry, answer_image_files,
                   scores, err, trace, response_content, parsed>>

Init ==
    /\ pc = "load"
    /\ questions_data \in Datasets
    /\ idx = 0
    /\ all_results = <<>>
    /\ result_entry = None
    /\ answer_image_files = Unbound
    /\ scores = None
    /\ err = None
    /\ trace = <<>>
    /\ output = NotWritten
    /\ response_content = <<>>
    /\ parsed = [raised |-> FALSE, val |-> None]

Next ==
    \/ LoadDataset
    \/ NextRecord
    \/ Evaluate
    \/ RecordOutcome
    \/ Sleep
    \/ WriteOutput

Spec == Init /\ [][Next]_vars

(***************************************************************************)
(* parse_gpt_response on its own, over every short raw response            *)
(***************************************************************************)
ParseAlphabet == {"{", "}", ":", ",", "\"1\"", "2", "x", Surrogate}

RawResponses == UNION {[1..n -> ParseAlphabet] : n \in 0..MaxLen} \cup SampleReplies

RunParse ==
    /\ pc = "parse"
    /\ parsed' = parse_gpt_response(response_content)
    /\ pc' = "parsed"
    /\ UNCHANGED <<questions_data, idx, all_results, result_entry, answer_image_files,
                   scores, err, trace, output, response_content>>

ParseInit ==
    /\ pc = "parse"
    /\ response_content \in RawResponses
    /\ questions_data = <<>>
    /\ idx = 0
    /\ all_results = <<>>
    /\ result_entry = None
    /\ answer_image_files = Unbound
    /\ scores = None
    /\ err = None
    /\ trace = <<>>
    /\ output = NotWritten
    /\ parsed = [raised |-> FALSE, val |-> None]

ParseNext == RunParse

ParseSpec == ParseInit /\ [][ParseNext]_vars

(***************************************************************************)
(* main() around an evaluator that may return any pair                     *)
(***************************************************************************)
\* first components an evaluator may hand back: None, {}, scores, a dict sum() rejects
ReturnedScores ==
    { None,
      Dict(EmptyDict),
      Dict([k \in {"1", "2"} |-> Num(2)]),
      Dict([k \in {"1"} |-> Str(<<"hi">>)]) }

\* second components: None, the empty string, a message
ReturnedErrors ==
    { None, Str(<<>>), Str(<<"OpenAI API error: ", "e">>) }

\* lines 340-354: the tuple assignment "scores, err = evaluate_...(...)", any pair
EvaluateAnyPair ==
    /\ pc = "eval"
    /\ \E s \in ReturnedScores, e \in ReturnedErrors :
          /\ scores' = s
          /\ err' = e
    /\ trace' = Append(trace, Event("eval", idx,
                                    SelectEvaluator(result_entry, answer_image_files), FALSE))
    /\ pc' = "record"
    /\ UNCHANGED <<questions_data, idx, all_results, result_entry, answer_image_files,
                   output, response_content, parsed>>

AnyPairNext ==
    \/ LoadDataset
    \/ NextRecord
    \/ EvaluateAnyPair
    \/ RecordOutcome
    \/ Sleep
    \/ WriteOutput

AnyPairSpec == Init /\ [][AnyPairNext]_vars

(***************************************************************************)
(* Vocabulary of the properties                                            *)
(***************************************************************************)
Image == Str(<<"Image">>)
Text == Str(<<"Text">>)

ImageEvaluators == {"evaluate_image_q_single_a", "evaluate_image_q_multiple_a"}
TextEvaluators == {"evaluate_text_q_single_a", "evaluate_text_q_multiple_a"}
SingleEvaluators == {"evaluate_image_q_single_a", "evaluate_text_q_single_a"}
MultipleEvaluators == {"evaluate_image_q_multiple_a", "evaluate_text_q_multiple_a"}

\* the question is a string that ends, in any letter case, in .png, .jpg or .jpeg
HasImageSuffix(q) ==
    /\ q.t = "str"
    /\ \E n \in 4..5 :
          /\ Len(q.v) >= n
          /\ Lower(SubSeq(q.v, Len(q.v) - n + 1, Len(q.v)))
                \in {<<".", "p", "n", "g">>, <<".", "j", "p", "g">>, <<".", "j", "p", "e", "g">>}

QuestionFileExists(q) == q.t = "str" /\ IsFile(PathJoin(SCRIPT_DIR, q.v))

\* id and question are both present and non-empty: a non-empty string, and for
\* a value of another type what line 288 takes for present
Present(x) == Truthy(x)
ValidRecord(item) ==
    Present(Get(item, "id", None)) /\ Present(Get(item, "question", None))

\* the positions of the log that hold an event of one kind
EventsAt(ev) == {k \in DOMAIN trace : trace[k].ev = ev}
EventsOf(ev, rec) == {k \in DOMAIN trace : trace[k].ev = ev /\ trace[k].rec = rec}

\* the dataset position of the record the i-th entry of the collection was made for
Appends == SelectSeq(trace, LAMBDA e : e.ev = "append")
RecordOf(i) == Appends[i].rec

\* the pre-evaluation checks of a record, from the files on disk
FolderOf(item) == PathJoin(ANSWERS_BASE_DIR, item.id.v)
NoFolder(item) == ~IsDir(FolderOf(item))
NoAnswerImage(item) ==
    ~ \E f \in ListDir(Resolve(FolderOf(item))) :
         \E n \in 4..5 :
            /\ Len(f) >= n
            /\ Lower(SubSeq(f, Len(f) - n + 1, Len(f)))
                  \in {<<".", "p", "n", "g">>, <<".", "j", "p", "g">>, <<".", "j", "p", "e", "g">>,
                       <<".", "g", "i", "f">>, <<".", "b", "m", "p">>}
NoQuestionImage(item) == HasImageSuffix(item.question) /\ ~QuestionFileExists(item.question)
PreCheckFails(item) == NoFolder(item) \/ NoAnswerImage(item) \/ NoQuestionImage(item)
PreCheckMessage(item) ==
    IF NoFolder(item) THEN Str(<<"Answer folder not found.">>)
    ELSE IF NoAnswerImage(item) THEN Str(<<"No answer images found.">>)
    ELSE Str(<<"Question image file not found.">>)

\* the valid records among the first k of the dataset, as (id, question) pairs
RECURSIVE ValidPrefix(_)
ValidPrefix(k) ==
    IF k = 0 THEN <<>>
    ELSE ValidPrefix(k - 1) \o
         (IF ValidRecord(questions_data[k])
          THEN << <<questions_data[k].id, questions_data[k].question>> >>
          ELSE <<>>)

EntryKeys(entries) == [i \in 1..Len(entries) |-> <<entries[i].question_id, entries[i].question_raw>>]

\* how many records the loop has finished with
Finished == IF pc = "sleep" THEN idx ELSE IF idx = 0 THEN 0 ELSE idx - 1

(***************************************************************************)
(* C1                                                                      *)
(***************************************************************************)
\* C1: whatever evaluator ran and however encoding, the request and the parse
\* ended, exactly one of the returned scores and error is non-null.
C1_ExactlyOneOfScoresAndError ==
    pc = "record" => ((scores = None) # (err = None))

(***************************************************************************)
(* C2                                                                      *)
(***************************************************************************)
\* C2: in every entry of the collection question_type is "Image" if the
\* question ends in an image extension and its file exists, and "Text" otherwise.
C2_ImageIffSuffixAndFile ==
    \A i \in 1..Len(all_results) :
        all_results[i].question_type =
            IF HasImageSuffix(all_results[i].question_raw)
               /\ QuestionFileExists(all_results[i].question_raw)
            THEN Image ELSE Text

(***************************************************************************)
(* C3                                                                      *)
(***************************************************************************)
\* C3: in every entry of the collection total_score is the sum of the values of
\* category_scores, and 0 when category_scores is null.
C3_TotalIsSum ==
    \A i \in 1..Len(all_results) :
        LET e == all_results[i]
        IN IF e.category_scores = None
           THEN e.total_score = 0
           ELSE /\ \A k \in DOMAIN e.category_scores.v : e.category_scores.v[k].t = "int"
                /\ e.total_score = SumOver(e.category_scores.v, DOMAIN e.category_scores.v)

C3_Witness ==
    /\ Len(all_results) = 2
    /\ all_results[1].category_scores = None
    /\ all_results[2].category_scores # None
    /\ all_results[2].total_score = 15

(***************************************************************************)
(* C4                                                                      *)
(***************************************************************************)
\* C4: once the dataset is loaded no outcome of a single question ends the run
\* before the output is written: main() is never left from inside the loop.
C4_NeverAborts ==
    pc \notin {"aborted", "loop_raised"}

(***************************************************************************)
(* C5                                                                      *)
(***************************************************************************)
\* C5: a record that fails a pre-evaluation check still gets its entry, with null
\* scores, total 0 and the message of the check that failed; no evaluator and no
\* external call runs for it, and the loop goes on to the next record: such a
\* record never ends the run.
C5_PreCheckFailureRecorded ==
    /\ \A i \in 1..Len(all_results) :
          LET e == all_results[i]
              r == RecordOf(i)
          IN PreCheckFails(questions_data[r]) =>
                /\ e.category_scores = None
                /\ e.total_score = 0
                /\ e.error_message = PreCheckMessage(questions_data[r])
                /\ (NoQuestionImage(questions_data[r]) /\ e.num_answer_images > 0
                       => e.error_message = Str(<<"Question image file not found.">>))
                /\ EventsOf("call", r) = {}
                /\ EventsOf("eval", r) = {}
                /\ idx > r
                /\ (trace[Len(trace)] = Event("append", r, "", FALSE)
                       => /\ pc \in {"loop", "eval", "done", "loop_raised", "write_raised"}
                          /\ idx = r + 1)
    /\ pc = "loop_raised" =>
          ~(ValidRecord(questions_data[idx]) /\ PreCheckFails(questions_data[idx]))

(***************************************************************************)
(* C6                                                                      *)
(***************************************************************************)
\* C6: the collection holds one entry for each valid record the loop has finished
\* with, in dataset order, and none for a record without id or question; what is
\* written is that collection for the whole dataset; the collection only grows at
\* its end.
C6_Collection ==
    /\ EntryKeys(all_results) = ValidPrefix(Finished)
    /\ output.written =>
          /\ output.data = all_results
          /\ EntryKeys(output.data) = ValidPrefix(Len(questions_data))

C6_OneEntryPerValidRecord ==
    /\ [] C6_Collection
    /\ [][/\ Len(all_results') >= Len(all_results)
          /\ SubSeq(all_results', 1, Len(all_results)) = all_results]_vars

C6_Witness ==
    /\ output.written
    /\ Len(questions_data) = 2
    /\ ~ValidRecord(questions_data[1])
    /\ ValidRecord(questions_data[2])
    /\ Len(output.data) = 1

(***************************************************************************)
(* C7                                                                      *)
(***************************************************************************)
\* the entry of the record an evaluator ran for
EntryOfRecord(r) ==
    IF \E i \in 1..Len(all_results) : RecordOf(i) = r
    THEN all_results[CHOOSE i \in 1..Len(all_results) : RecordOf(i) = r]
    ELSE result_entry

\* C7: a record that reaches evaluation has one evaluator invocation; it is a
\* single-answer one exactly when there is one answer image, a multi-answer one
\* exactly when there are two or more, and an image-question one exactly when
\* question_type is "Image" (a text-question one exactly when it is "Text").
C7_OneEvaluatorByShape ==
    /\ \A r \in 1..Len(questions_data) : Cardinality(EventsOf("eval", r)) <= 1
    /\ pc \in {"record", "sleep", "aborted"} => Cardinality(EventsOf("eval", idx)) = 1
    /\ \A k \in EventsAt("eval") :
          LET fn == trace[k].fn
              e == EntryOfRecord(trace[k].rec)
          IN /\ fn \in ImageEvaluators \cup TextEvaluators
             /\ fn \in SingleEvaluators <=> e.num_answer_images = 1
             /\ fn \in MultipleEvaluators <=> e.num_answer_images >= 2
             /\ fn \in ImageEvaluators <=> e.question_type = Image
             /\ fn \in TextEvaluators <=> e.question_type = Text

C7_Witness ==
    /\ Len(all_results) = 2
    /\ \E k \in EventsOf("eval", 1) : trace[k].fn = "evaluate_text_q_single_a"
    /\ all_results[1].question_type = Text
    /\ all_results[1].num_answer_images = 1
    /\ \E k \in EventsOf("eval", 2) : trace[k].fn = "evaluate_image_q_multiple_a"

(***************************************************************************)
(* C8                                                                      *)
(***************************************************************************)
\* C8: an evaluation in which the question image or one of the answer images fails
\* to encode makes no external call and returns an error.
C8_NoCallAfterEncodingFailure ==
    \A k \in EventsAt("eval") :
        trace[k].unencoded =>
            /\ EventsOf("call", trace[k].rec) = {}
            /\ (pc = "record" /\ trace[k].rec = idx) => (scores = None /\ err # None)

C8_Witness ==
    /\ pc = "record"
    /\ \E k \in EventsOf("eval", idx) :
          /\ trace[k].fn = "evaluate_image_q_multiple_a"
          /\ trace[k].unencoded
    /\ err = Str(<<"Failed to encode an answer image: ">> \o answer_image_files[2])
    /\ EventsOf("call", idx) = {}

(***************************************************************************)
(* C9                                                                      *)
(***************************************************************************)
\* the span from the first "{" to the last "}", or the empty sequence
BraceSpan(s) ==
    LET opens == {i \in 1..Len(s) : s[i] = "{"}
        closes == {i \in 1..Len(s) : s[i] = "}"}
    IN IF opens = {} \/ closes = {} THEN <<>>
       ELSE LET first == CHOOSE i \in opens : \A j \in opens : i <= j
                last == CHOOSE i \in closes : \A j \in closes : j <= i
            IN IF last > first THEN SubSeq(s, first, last) ELSE <<>>

\* C9: parse_gpt_response returns the object written between the first "{" and
\* the last "}" when that span is a well-formed JSON object, returns null when
\* there is no such span or it is not valid JSON, and never raises.
C9_ParsesFirstToLastBrace ==
    pc = "parsed" =>
        /\ ~parsed.raised
        /\ parsed.val = IF BraceSpan(response_content) # <<>>
                           /\ JsonLoads(BraceSpan(response_content)).ok
                        THEN JsonLoads(BraceSpan(response_content)).val
                        ELSE None

(***************************************************************************)
(* C10                                                                     *)
(***************************************************************************)
\* C10 as stated: every append of an entry is followed by the delay before the
\* loop takes the next record.
C10_DelayAfterEveryEntry ==
    \A k \in EventsAt("append") :
        IF k < Len(trace)
        THEN trace[k + 1] = Event("sleep", trace[k].rec, "", FALSE)
        ELSE pc = "sleep"

\* C10 amended: the delay follows the entry of every record an evaluator ran for,
\* before the next record is taken; an entry made by a failed pre-evaluation check
\* is followed by no delay; a delay lies between any two external calls.
C10_DelayAfterEvaluatedEntry ==
    /\ \A k \in EventsAt("append") :
          IF EventsOf("eval", trace[k].rec) # {}
          THEN IF k < Len(trace)
               THEN trace[k + 1] = Event("sleep", trace[k].rec, "", FALSE)
               ELSE pc = "sleep"
          ELSE /\ EventsOf("sleep", trace[k].rec) = {}
               /\ (k = Len(trace) =>
                      pc \in {"loop", "eval", "done", "loop_raised", "write_raised"})
    /\ \A i, j \in EventsAt("call") :
          i < j => \E k \in EventsAt("sleep") : i < k /\ k < j

C10_Witness ==
    /\ Len(trace) = 5
    /\ trace[1].ev = "append" /\ trace[1].rec = 1
    /\ trace[2].ev = "eval" /\ trace[3].ev = "call" /\ trace[4].ev = "append"
    /\ trace[5] = Event("sleep", 2, "", FALSE)
    /\ pc = "loop"

(***************************************************************************)
(* C11                                                                     *)
(***************************************************************************)
\* C11: whatever pair the evaluator returns, every entry of the collection has
\* either category_scores or error_message set, never both and never neither.
C11_ScoresOrErrorRecorded ==
    \A i \in 1..Len(all_results) :
        (all_results[i].category_scores = None) # (all_results[i].error_message = None)

C11_Witness ==
    /\ Len(all_results) = 2
    /\ all_results[1].error_message =
          Str(<<"Evaluation completed but no scores were returned.">>)
    /\ pc = "sleep"
    /\ scores # None /\ Truthy(scores)
    /\ err # None /\ Truthy(err)
    /\ all_results[2].category_scores = None
    /\ all_results[2].error_message = err

====
